---------------------------- MODULE Spec2Model ----------------------------
(***************************************************************************)
(* A model of the Redis clone in src/src/main.rs: the shared key-value     *)
(* store (redis_key_val_store), the registry of one-shot senders           *)
(* (oneshot_store), and one `process` task per client connection.          *)
(*                                                                         *)
(* Every command handler is one action.  A handler is atomic with respect  *)
(* to the other tasks because it runs inside one critical section of the   *)
(* store mutex.  The only handler that is split is `lbpop`: the store      *)
(* guard taken in the scrutinee of the `if let` (main.rs:442) is a         *)
(* temporary that is released before the else block (the handler awaits    *)
(* inside that block, and a guard held across the await would make the     *)
(* task non-Send, which tokio::spawn at main.rs:550 rejects); the else     *)
(* block then takes the registry mutex (main.rs:464), releases it          *)
(* (main.rs:469) and awaits the receiver (main.rs:471).                    *)
(*                                                                         *)
(* A panic while a std::sync::Mutex guard is alive poisons the mutex, and  *)
(* every later `lock().unwrap()` panics: `poisoned` records this for the   *)
(* store mutex.                                                            *)
(*                                                                         *)
(* Option<T> is modelled as a sequence of length at most one.              *)
(*                                                                         *)
(* Spec has every client send well-formed commands, one frame a read.      *)
(* SpecInput has two clients that also send commands short of arguments,   *)
(* arguments that do not parse, and reads that deliver several frames.     *)
(* SpecLrange has one client that builds lists and reads every range.      *)
(* SpecWire has two clients that send SET with values of every shape over  *)
(* the wire.  SpecTeardown has clients whose peers disconnect.             *)
(* SpecAtomic and SpecGuards run the list handlers one statement a step,   *)
(* with the mutex guards as locals of the tasks, so that statements of     *)
(* different tasks interleave; SpecGuardsFair adds that a running task     *)
(* runs on.                                                                *)
(***************************************************************************)
EXTENDS Integers, Sequences, FiniteSets, TLC

\* ------------------------------------------------------------------ bounds
NumSessions == 3
NumKeys == 1
MaxLen == 2
MaxPush == 2
MaxTime == 2
MaxTtl == 1
MaxCount == 2
MaxFrames == 2
MaxGuardLen == 4

Sessions == 1..NumSessions
KeyNames == <<"k", "j", "i">>
Keys == {KeyNames[i] : i \in 1..NumKeys}
Values == {"a", "b"}

\* Option<T>
None == <<>>
Some(x) == <<x>>

TtlArgs == {None} \cup {Some(n) : n \in 1..MaxTtl}
CountArgs == {None} \cup {Some(n) : n \in 0..MaxCount}

\* the index tokens an LRANGE can carry reach one past either end of a list
MaxIndex == MaxLen + 1

\* the argument lists a push command can carry: parsed_command[2..]
SeqsUpTo(n) == UNION {[1..m -> Values] : m \in 0..n}
PushArgs == SeqsUpTo(MaxPush)

Min(a, b) == IF a < b THEN a ELSE b
Max(a, b) == IF a > b THEN a ELSE b

\* ------------------------------------------------------------- value model
\* enum RedisType
List(l) == [t |-> "List", l |-> l]
Val(v) == [t |-> "Val", v |-> v]

\* struct RedisValue
RedisValue(data, ct, ttl) == [data |-> data, creation_time |-> ct, ttl |-> ttl]

\* ----------------------------------------------------------------- replies
\* redis_output, by RESP shape
NoReply == [t |-> "none"]
Ok == [t |-> "ok"]
Nil == [t |-> "nil"]
Bulk(v) == [t |-> "bulk", v |-> v]
Integer(n) == [t |-> "int", n |-> n]
Simple(n) == [t |-> "simple", n |-> n]
Array(a) == [t |-> "array", a |-> a]
WrongType == [t |-> "err", e |-> "WRONGTYPE"]
ArityErr == [t |-> "err", e |-> "ERR wrong number of arguments"]
\* "$1\r\n": the header of a one-byte bulk string with no payload
Placeholder == [t |-> "bulkhdr", n |-> 1]

VARIABLES
    store,         \* redis_key_val_store: a map from the keys present to RedisValue
    oneshot_store, \* a map from the keys present to the queue of senders
    channel,       \* per session: the one-shot channel of its lbpop
    sess,          \* per session: where the task is, and db_list_name
    poisoned,      \* the store mutex is poisoned
    now,           \* SystemTime::now(), in ms
    owed,          \* history: per fired waiter, the list head its firing handed to it
    expired,       \* history: per key, "nil" once a GET has answered nil for its
                   \* expiry, then "pushed" / "erred" after a push that grew the
                   \* list / was refused, and "no" again after a SET
    last           \* history: the command the last step served, what it found and
                   \* replied, and the number of command frames its read delivered

vars == <<store, oneshot_store, channel, sess, poisoned, now, owed, expired, last>>

\* ---------------------------------------------------------------- helpers
\* HashMap::insert / HashMap::remove
Insert(m, k, v) == [x \in DOMAIN m \cup {k} |-> IF x = k THEN v ELSE m[x]]
Remove(m, k) == [x \in DOMAIN m \ {k} |-> m[x]]

\* HashMap::get as an Option
Get(m, k) == IF k \in DOMAIN m THEN Some(m[k]) ELSE None

\* the queue of senders of a key, empty when the registry has no entry
Waiters(k) == IF k \in DOMAIN oneshot_store THEN oneshot_store[k] ELSE <<>>

Idle == [pc |-> "read", key |-> None]

Last(s, op, k, args, opt, reply) ==
    [s |-> s, op |-> op, k |-> k, args |-> args, opt |-> opt, reply |-> reply,
     pre |-> Get(store, k), presize |-> Cardinality(DOMAIN store),
     preq |-> Waiters(k), owed |-> owed[s], seen |-> expired[k],
     frames |-> 1, err |-> "none"]

\* the record of a step that serves no key
NoKeyLast(s, op, reply) ==
    [s |-> s, op |-> op, k |-> KeyNames[1], args |-> <<>>, opt |-> None, reply |-> reply,
     pre |-> None, presize |-> Cardinality(DOMAIN store),
     preq |-> <<>>, owed |-> None, seen |-> "no",
     frames |-> IF s \in Sessions THEN 1 ELSE 0, err |-> "none"]

\* a task that panics stops; a panic under the store guard poisons the mutex
Panic(s, op, k, args, opt) ==
    /\ sess' = [sess EXCEPT ![s] = [pc |-> "panicked", key |-> None]]
    /\ last' = Last(s, op, k, args, opt, NoReply)

\* lock().unwrap() on a poisoned store mutex
LockPanics(s, op, k, args, opt) ==
    /\ poisoned
    /\ Panic(s, op, k, args, opt)
    /\ UNCHANGED <<store, oneshot_store, channel, poisoned, now, owed, expired>>

Reading(s) == sess[s].pc = "read"

\* ------------------------------------------------------------------- Init
Init ==
    /\ store = <<>>
    /\ oneshot_store = <<>>
    /\ channel = [s \in Sessions |-> "none"]
    /\ sess = [s \in Sessions |-> Idle]
    /\ poisoned = FALSE
    /\ now = 0
    /\ owed = [s \in Sessions |-> None]
    /\ expired = [k \in Keys |-> "no"]
    /\ last = NoKeyLast(0, "init", NoReply)

\* the clock advances
Tick ==
    /\ now < MaxTime
    /\ now' = now + 1
    /\ last' = NoKeyLast(0, "tick", NoReply)
    /\ UNCHANGED <<store, oneshot_store, channel, sess, poisoned, owed, expired>>

\* ------------------------------------------------------------ SET/GET/TTL
\* "set": SET k v [PX ttl]
\* a SET that keeps the TTL of the entry it overwrites when it is given none
SetStoreKeepsTtl(k, v, ttl) ==
    Insert(store, k,
           RedisValue(Val(v), now,
                      IF ttl = None /\ k \in DOMAIN store THEN store[k].ttl ELSE ttl))

SetStore(k, v, ttl) == Insert(store, k, RedisValue(Val(v), now, ttl))

Set(s, k, v, ttl) ==
    /\ Reading(s)
    /\ \/ LockPanics(s, "SET", k, <<v>>, ttl)
       \/ /\ ~poisoned
          /\ store' = SetStore(k, v, ttl)
          /\ expired' = [expired EXCEPT ![k] = "no"]
          /\ last' = Last(s, "SET", k, <<v>>, ttl, Ok)
          /\ UNCHANGED <<oneshot_store, channel, sess, poisoned, now, owed>>

\* key_expired of "get"
KeyExpiredAt(x, t) == x.ttl # None /\ t > x.creation_time + x.ttl[1]
KeyExpired(x) == KeyExpiredAt(x, now)

\* a GET that forgets the passive expiry
GetStoreNoRemove(k) == store

\* a GET that touches the expired entry instead of removing it
GetStoreRefresh(k) ==
    IF k \in DOMAIN store /\ KeyExpired(store[k])
    THEN [store EXCEPT ![k].creation_time = now]
    ELSE store

\* the store after "get": an expired entry is removed (passive expiry)
GetStore(k) ==
    IF k \in DOMAIN store /\ KeyExpired(store[k]) THEN Remove(store, k) ELSE store

\* a GET that answers the head of a list
GetReplyListHead(k) ==
    IF k \notin DOMAIN store THEN Nil
    ELSE IF KeyExpired(store[k]) THEN Nil
    ELSE IF store[k].data.t = "Val" THEN Bulk(store[k].data.v)
    ELSE IF store[k].data.l # <<>> THEN Bulk(Head(store[k].data.l))
    ELSE WrongType

\* returned_value of "get"
GetReply(k) ==
    IF k \notin DOMAIN store THEN Nil
    ELSE IF KeyExpired(store[k]) THEN Nil
    ELSE IF store[k].data.t = "Val" THEN Bulk(store[k].data.v)
    ELSE WrongType

GetCmd(s, k) ==
    /\ Reading(s)
    /\ \/ LockPanics(s, "GET", k, <<>>, None)
       \/ /\ ~poisoned
          /\ store' = GetStore(k)
          /\ expired' = IF k \in DOMAIN store /\ KeyExpired(store[k])
                        THEN [expired EXCEPT ![k] = "nil"]
                        ELSE expired
          /\ last' = Last(s, "GET", k, <<>>, None, GetReply(k))
          /\ UNCHANGED <<oneshot_store, channel, sess, poisoned, now, owed>>

\* ttl_left of "ttl": duration_since(now).unwrap_or_default()
\* a TTL that does not clamp the time left
TtlLeftNoClamp(x, t) == x.creation_time + x.ttl[1] - t

TtlLeftAt(x, t) == Max(x.creation_time + x.ttl[1] - t, 0)
TtlLeft(x) == TtlLeftAt(x, now)

TtlReply(k) ==
    IF k \notin DOMAIN store THEN Simple(-1)
    ELSE IF store[k].ttl = None THEN Simple(-1)
    ELSE Simple(TtlLeft(store[k]))

Ttl(s, k) ==
    /\ Reading(s)
    /\ \/ LockPanics(s, "TTL", k, <<>>, None)
       \/ /\ ~poisoned
          /\ last' = Last(s, "TTL", k, <<>>, None, TtlReply(k))
          /\ UNCHANGED <<store, oneshot_store, channel, sess, poisoned, now, owed, expired>>

\* "dbsize"
DbsizeReply == Integer(Cardinality(DOMAIN store))

Dbsize(s) ==
    /\ Reading(s)
    /\ \/ LockPanics(s, "DBSIZE", KeyNames[1], <<>>, None)
       \/ /\ ~poisoned
          /\ last' = NoKeyLast(s, "DBSIZE", DbsizeReply)
          /\ UNCHANGED <<store, oneshot_store, channel, sess, poisoned, now, owed, expired>>

\* ------------------------------------------------------------ list pushes
\* an entry().insert that replaces whatever the key held by an empty list
OrInsertListAlways(k) == Insert(store, k, RedisValue(List(<<>>), now, None))

\* store.entry(key).or_insert_with(empty list, created now, no ttl)
OrInsertList(k) ==
    IF k \in DOMAIN store THEN store
    ELSE Insert(store, k, RedisValue(List(<<>>), now, None))

\* an extend that puts the arguments in front of the list
ExtendAtFront(l, vs) == vs \o l

\* VecDeque::extend: the arguments go to the back, in order
Extend(l, vs) == l \o vs

\* a push that puts the arguments in front of the list as one block
PushFrontBlock(l, vs) == vs \o l

\* the loop of push_front: the arguments go to the front one by one
RECURSIVE PushFrontAll(_, _)
PushFrontAll(l, vs) ==
    IF vs = <<>> THEN l ELSE PushFrontAll(<<Head(vs)>> \o l, Tail(vs))

WithList(m, k, l) == [m EXCEPT ![k].data = List(l)]

\* history: a push on a key ends the span in which a GET has seen it expired
AfterPush(seen, reply) ==
    IF seen = "no" THEN "no"
    ELSE IF reply.t = "int" THEN "pushed"
    ELSE IF seen = "nil" THEN "erred"
    ELSE seen

\* "rpush": RPUSH k v1 .. vm
RpushStore(k, vs) ==
    LET m == OrInsertList(k) IN
    IF m[k].data.t = "List" /\ Len(vs) > 0
    THEN WithList(m, k, Extend(m[k].data.l, vs))
    ELSE m

PushReply(m, k, vs) ==
    IF m[k].data.t # "List" THEN WrongType
    ELSE IF Len(vs) = 0 THEN ArityErr
    ELSE Integer(Len(m[k].data.l))

\* the entries a push may grow: the model keeps every list within MaxLen
Fits(k, vs) ==
    k \in DOMAIN store /\ store[k].data.t = "List"
        => Len(store[k].data.l) + Len(vs) <= MaxLen

Rpush(s, k, vs) ==
    /\ Reading(s)
    /\ Fits(k, vs)
    /\ \/ LockPanics(s, "RPUSH", k, vs, None)
       \/ /\ ~poisoned
          /\ store' = RpushStore(k, vs)
          /\ expired' = [expired EXCEPT ![k] = AfterPush(@, PushReply(store', k, vs))]
          /\ last' = Last(s, "RPUSH", k, vs, None, PushReply(store', k, vs))
          /\ UNCHANGED <<oneshot_store, channel, sess, poisoned, now, owed>>

\* "lpush": LPUSH k v1 .. vm
LpushStore(k, vs) ==
    LET m == OrInsertList(k) IN
    IF m[k].data.t = "List" /\ Len(vs) > 0
    THEN WithList(m, k, PushFrontAll(m[k].data.l, vs))
    ELSE m

\* the senders "lpush" takes from the queue of k and fires (main.rs:349-355)
LpushFired(k) ==
    IF k \in DOMAIN oneshot_store /\ oneshot_store[k] # <<>>
    THEN <<Head(oneshot_store[k])>>
    ELSE <<>>

Range(q) == {q[i] : i \in 1..Len(q)}
IndexOf(q, x) == CHOOSE i \in 1..Len(q) : q[i] = x

Lpush(s, k, vs) ==
    /\ Reading(s)
    /\ Fits(k, vs)
    /\ \/ LockPanics(s, "LPUSH", k, vs, None)
       \/ /\ ~poisoned
          /\ store' = LpushStore(k, vs)
          /\ IF store'[k].data.t = "List" /\ Len(vs) > 0
             THEN LET fired == LpushFired(k) IN
                  /\ oneshot_store' =
                        IF fired = <<>> THEN oneshot_store
                        ELSE [oneshot_store EXCEPT ![k] = SubSeq(@, Len(fired) + 1, Len(@))]
                  /\ channel' = [x \in Sessions |->
                                   IF x \in Range(fired) THEN "sent" ELSE channel[x]]
                  /\ owed' = [x \in Sessions |->
                                IF x \in Range(fired)
                                THEN Some(store'[k].data.l[IndexOf(fired, x)])
                                ELSE owed[x]]
             ELSE UNCHANGED <<oneshot_store, channel, owed>>
          /\ expired' = [expired EXCEPT ![k] = AfterPush(@, PushReply(store', k, vs))]
          /\ last' = Last(s, "LPUSH", k, vs, None, PushReply(store', k, vs))
          /\ UNCHANGED <<sess, poisoned, now>>

\* ------------------------------------------------------------- LLEN, LPOP
LlenReply(k) ==
    IF k \notin DOMAIN store THEN Integer(0)
    ELSE IF store[k].data.t = "List" THEN Integer(Len(store[k].data.l))
    ELSE WrongType

Llen(s, k) ==
    /\ Reading(s)
    /\ \/ LockPanics(s, "LLEN", k, <<>>, None)
       \/ /\ ~poisoned
          /\ last' = Last(s, "LLEN", k, <<>>, None, LlenReply(k))
          /\ UNCHANGED <<store, oneshot_store, channel, sess, poisoned, now, owed, expired>>

\* times_to_pop: 1 when no count is given
TimesToPop(cnt) == IF cnt = None THEN 1 ELSE cnt[1]

\* output_array: the heads popped, at most times_to_pop of them
Popped(l, n) == SubSeq(l, 1, Min(n, Len(l)))
Rest(l, n) == SubSeq(l, Min(n, Len(l)) + 1, Len(l))

\* an LPOP that leaves the key of a drained list in the store
LpopStoreKeepsKey(k, cnt) ==
    IF k \in DOMAIN store /\ store[k].data.t = "List"
    THEN WithList(store, k, Rest(store[k].data.l, TimesToPop(cnt)))
    ELSE store

\* the store after "lpop": the key of a list left empty is removed
LpopStore(k, cnt) ==
    IF k \in DOMAIN store /\ store[k].data.t = "List"
    THEN LET rest == Rest(store[k].data.l, TimesToPop(cnt)) IN
         IF rest = <<>> THEN Remove(store, k) ELSE WithList(store, k, rest)
    ELSE store

LpopReply(k, cnt) ==
    IF k \notin DOMAIN store THEN Nil
    ELSE IF store[k].data.t # "List" THEN WrongType
    ELSE LET out == Popped(store[k].data.l, TimesToPop(cnt)) IN
         IF out = <<>> THEN Nil
         ELSE IF Len(out) = 1 THEN Bulk(out[1])
         ELSE Array(out)

Lpop(s, k, cnt) ==
    /\ Reading(s)
    /\ \/ LockPanics(s, "LPOP", k, <<>>, cnt)
       \/ /\ ~poisoned
          /\ store' = LpopStore(k, cnt)
          /\ last' = Last(s, "LPOP", k, <<>>, cnt, LpopReply(k, cnt))
          /\ UNCHANGED <<oneshot_store, channel, sess, poisoned, now, owed, expired>>

\* ----------------------------------------------------------------- LRANGE
\* an index token of LRANGE: the text of an isize, or any other text
Num(n) == [text |-> "int", n |-> n]
Word == [text |-> "word", n |-> 0]

\* str::parse::<isize>().unwrap_or(default)
ParseIsizeOr(tok, default) == IF tok.text = "int" THEN tok.n ELSE default

\* a negative index has the list length added once
AddLength(i, n) == IF i < 0 THEN i + n ELSE i

\* an LRANGE whose stop index is exclusive
LrangeOutExclusive(l, a, b) ==
    LET n == Len(l)
        start_index == Max(AddLength(ParseIsizeOr(a, n), n), 0)
        stop_index == Min(AddLength(ParseIsizeOr(b, n), n), n - 1)
    IN  IF start_index >= stop_index THEN <<>>
        ELSE SubSeq(l, start_index + 1, stop_index)

\* output_array of lrange for the list l and the index tokens a, b
LrangeOut(l, a, b) ==
    LET n == Len(l)
        start_index == Max(AddLength(ParseIsizeOr(a, n), n), 0)
        stop_index == Min(AddLength(ParseIsizeOr(b, n), n), n - 1)
    IN  IF start_index > stop_index THEN <<>>
        ELSE SubSeq(l, start_index + 1, stop_index + 1)

\* parsed_command[2] or parsed_command[3] is out of bounds, read for a list
LrangeIndexPanics(k, r) ==
    k \in DOMAIN store /\ store[k].data.t = "List" /\ Len(r) < 2

\* the reply of "lrange" for the key k and the tokens r after the key
LrangeReply(k, r) ==
    IF k \notin DOMAIN store THEN Array(<<>>)
    ELSE IF store[k].data.t # "List" THEN WrongType
    ELSE Array(LrangeOut(store[k].data.l, r[1], r[2]))

Lrange(s, k, r) ==
    /\ Reading(s)
    /\ \/ LockPanics(s, "LRANGE", k, r, None)
       \/ /\ ~poisoned
          /\ LrangeIndexPanics(k, r)
          /\ poisoned' = TRUE
          /\ Panic(s, "LRANGE", k, r, None)
          /\ UNCHANGED <<store, oneshot_store, channel, now, owed, expired>>
       \/ /\ ~poisoned
          /\ ~LrangeIndexPanics(k, r)
          /\ last' = Last(s, "LRANGE", k, r, None, LrangeReply(k, r))
          /\ UNCHANGED <<store, oneshot_store, channel, sess, poisoned, now, owed, expired>>

\* ------------------------------------------------- the read loop, PING, ECHO
\* a command frame is the sequence of its tokens; on the wire it is the lines
\* "*<n>", then "$<len>" and the token for each token
Header(c) == [c |-> c, text |-> ""]
Payload(tok) == [c |-> "", text |-> tok]

RECURSIVE Encode(_)
Encode(f) ==
    IF f = <<>> THEN <<>>
    ELSE <<Header("$"), Payload(Head(f))>> \o Encode(Tail(f))

RECURSIVE Wire(_)
Wire(frames) ==
    IF frames = <<>> THEN <<>>
    ELSE <<Header("*")>> \o Encode(Head(frames)) \o Wire(Tail(frames))

\* string.starts_with(['*', '$'])
IsHeader(line) == line.c \in {"*", "$"}

\* parse_command: every line of the buffer that is no header, in order
RECURSIVE ParseCommand(_)
ParseCommand(lines) ==
    IF lines = <<>> THEN <<>>
    ELSE IF IsHeader(Head(lines)) THEN ParseCommand(Tail(lines))
    ELSE <<Head(lines).text>> \o ParseCommand(Tail(lines))

\* redis_output of "ping" and "echo"
Status(txt) == [t |-> "status", s |-> txt]

PingEchoReply(parsed_command) ==
    IF parsed_command[1] = "PING" THEN Status("PONG")
    ELSE Status(parsed_command[2])

\* one turn of the loop of process: a read that delivers the frames, all of
\* them parsed as one command, one dispatch and one write
Read(s, frames) ==
    /\ Reading(s)
    /\ LET parsed_command == ParseCommand(Wire(frames)) IN
       last' = [NoKeyLast(s, parsed_command[1], PingEchoReply(parsed_command))
                   EXCEPT !.frames = Len(frames)]
    /\ UNCHANGED <<store, oneshot_store, channel, sess, poisoned, now, owed, expired>>

\* ------------------------------------------------------ SET over the wire
\* a value is the sequence of its bytes; CRLF stands for the two bytes \r\n
CRLF == "\r\n"

\* the values a SET can carry: empty, plain, starting with '$' or '*', and
\* holding one or two line breaks
ByteValues ==
    {<<>>, <<"a">>, <<"b">>, <<"$", "a">>, <<"*", "a">>,
     <<"a", CRLF, "b">>, <<"a", CRLF, "b", CRLF, "c">>}

\* str::lines of the bytes b followed by \r\n: the segments between line breaks
RECURSIVE SplitLines(_, _)
SplitLines(b, line) ==
    IF b = <<>> THEN <<line>>
    ELSE IF Head(b) = CRLF THEN <<line>> \o SplitLines(Tail(b), <<>>)
    ELSE SplitLines(Tail(b), Append(line, Head(b)))

\* a line of a value, with the first character that starts_with looks at
ValueLine(line) ==
    [c |-> IF line # <<>> /\ Head(line) \in {"*", "$"} THEN Head(line) ELSE "",
     text |-> line]

\* the bulk string of the value b on the wire: "$<len>", then the bytes
EncodeBulk(b) ==
    LET lines == SplitLines(b, <<>>) IN
    <<Header("$")>> \o [i \in 1..Len(lines) |-> ValueLine(lines[i])]

\* the frame of SET k b on the wire
SetFrame(k, b) == <<Header("*")>> \o Encode(<<"SET", k>>) \o EncodeBulk(b)

\* "set" on the tokens parse_command finds in the frame of SET k b: the fifth
\* token, if any, is parsed as the TTL before the lock; the key and the value
\* are indexed under the guard
SetWire(s, k, b) ==
    /\ Reading(s)
    /\ LET parsed_command == ParseCommand(SetFrame(k, b)) IN
       \/ /\ Len(parsed_command) >= 5
          /\ Panic(s, "SET_WIRE", k, <<b>>, None)
          /\ UNCHANGED <<store, oneshot_store, channel, poisoned, now, owed, expired>>
       \/ /\ Len(parsed_command) < 5
          /\ LockPanics(s, "SET_WIRE", k, <<b>>, None)
       \/ /\ Len(parsed_command) < 3
          /\ ~poisoned
          /\ poisoned' = TRUE
          /\ Panic(s, "SET_WIRE", k, <<b>>, None)
          /\ UNCHANGED <<store, oneshot_store, channel, now, owed, expired>>
       \/ /\ Len(parsed_command) \in 3..4
          /\ ~poisoned
          /\ store' = SetStore(k, parsed_command[3], None)
          /\ expired' = [expired EXCEPT ![k] = "no"]
          /\ last' = Last(s, "SET_WIRE", k, <<b>>, None, Ok)
          /\ UNCHANGED <<oneshot_store, channel, sess, poisoned, now, owed>>

\* ------------------------------------------- commands with a bad argument
\* the known commands whose handler indexes parsed_command[1]
NoKeyOps == {"SET", "GET", "TTL", "RPUSH", "LPUSH", "LRANGE", "LLEN", "LPOP", "LBPOP"}

\* the handler holds the store guard when it evaluates parsed_command[1]:
\* every handler but "lbpop", which takes the key first (main.rs:439)
GuardHeldAtKey(op) == op # "LBPOP"

\* the record of a step whose handler panicked on the argument it was given
BadLast(s, op, err) == [NoKeyLast(s, op, NoReply) EXCEPT !.err = err]

\* a panic of the task of s, under the store guard or not
PanicsOnArgument(s, op, err, guarded) ==
    /\ Reading(s)
    /\ poisoned' = (poisoned \/ guarded)
    /\ sess' = [sess EXCEPT ![s] = [pc |-> "panicked", key |-> None]]
    /\ last' = BadLast(s, op, err)
    /\ UNCHANGED <<store, oneshot_store, channel, now, owed, expired>>

\* a known command sent alone: parsed_command[1] is out of bounds
NoKey(s, op) == PanicsOnArgument(s, op, "nokey", GuardHeldAtKey(op))

\* SET k: parsed_command[2] is out of bounds, under the guard of the insert
SetNoValue(s) == PanicsOnArgument(s, "SET", "novalue", TRUE)

\* SET k v PX x where x is no u64: parse().unwrap() panics before the lock
SetBadTtl(s) == PanicsOnArgument(s, "SET", "badttl", poisoned)

\* LPOP k x where x is no u32: parse().unwrap() panics under the guard
LpopBadCount(s) == PanicsOnArgument(s, "LPOP", "badcount", TRUE)

\* ------------------------------------------------------------------ LBPOP
\* the store side of "lbpop" (main.rs:442-461): the fast path
LbpopStore(k) ==
    IF k \in DOMAIN store /\ store[k].data.t = "List" /\ store[k].data.l # <<>>
    THEN WithList(store, k, Tail(store[k].data.l))
    ELSE store

LbpopFastReply(k) ==
    IF store[k].data.t = "List" THEN Bulk(Head(store[k].data.l)) ELSE WrongType

\* list.pop_front().unwrap() on a stored empty list
LbpopUnwrapPanics(k) ==
    k \in DOMAIN store /\ store[k].data.t = "List" /\ store[k].data.l = <<>>

Lbpop(s, k) ==
    /\ Reading(s)
    /\ \/ LockPanics(s, "LBPOP", k, <<>>, None)
       \/ /\ ~poisoned
          /\ LbpopUnwrapPanics(k)
          /\ poisoned' = TRUE
          /\ Panic(s, "LBPOP", k, <<>>, None)
          /\ UNCHANGED <<store, oneshot_store, channel, now, owed, expired>>
       \/ /\ ~poisoned
          /\ k \in DOMAIN store
          /\ ~LbpopUnwrapPanics(k)
          /\ store' = LbpopStore(k)
          /\ last' = Last(s, "LBPOP", k, <<>>, None, LbpopFastReply(k))
          /\ UNCHANGED <<oneshot_store, channel, sess, poisoned, now, owed, expired>>
       \/ /\ ~poisoned
          /\ k \notin DOMAIN store
          /\ sess' = [sess EXCEPT ![s] = [pc |-> "register", key |-> Some(k)]]
          /\ last' = Last(s, "LBPOP", k, <<>>, None, NoReply)
          /\ UNCHANGED <<store, oneshot_store, channel, poisoned, now, owed, expired>>

\* a registration that queues the sender of s twice
PushBackSenderTwice(k, s) ==
    IF k \in DOMAIN oneshot_store
    THEN [oneshot_store EXCEPT ![k] = Append(Append(@, s), s)]
    ELSE Insert(oneshot_store, k, <<s, s>>)

\* the else block up to drop(oneshot_store): a fresh channel, its sender queued
PushBackSender(k, s) ==
    IF k \in DOMAIN oneshot_store
    THEN [oneshot_store EXCEPT ![k] = Append(@, s)]
    ELSE Insert(oneshot_store, k, <<s>>)

LbpopRegister(s) ==
    /\ sess[s].pc = "register"
    /\ LET k == sess[s].key[1] IN
       /\ oneshot_store' = PushBackSender(k, s)
       /\ channel' = [channel EXCEPT ![s] = "pending"]
       /\ sess' = [sess EXCEPT ![s].pc = "await"]
       /\ last' = Last(s, "LBPOP_REGISTER", k, <<>>, None, NoReply)
    /\ UNCHANGED <<store, poisoned, now, owed, expired>>

\* channel.1.await returns once the sender has fired; the reply is "$1\r\n"
LbpopResumeReply == Placeholder

LbpopResume(s) ==
    /\ sess[s].pc = "await"
    /\ channel[s] = "sent"
    /\ LET k == sess[s].key[1] IN
       last' = Last(s, "LBPOP_RESUME", k, <<>>, None, LbpopResumeReply)
    /\ channel' = [channel EXCEPT ![s] = "none"]
    /\ sess' = [sess EXCEPT ![s] = Idle]
    /\ owed' = [owed EXCEPT ![s] = None]
    /\ UNCHANGED <<store, oneshot_store, poisoned, now, expired>>

\* --------------------------------------------------------------- teardown
\* the peer of s closes its connection.  A task in the read loop reads 0
\* bytes and ends (main.rs:188-190).  A task suspended in "lbpop" is not
\* polling the stream: it stays suspended, its sender stays queued, and only
\* the peer is gone.
Disconnect(s) ==
    /\ sess[s].pc \in {"read", "await"}
    /\ IF sess[s].pc = "read"
       THEN /\ sess' = [sess EXCEPT ![s] = [pc |-> "closed", key |-> None]]
            /\ last' = NoKeyLast(s, "DISCONNECT", NoReply)
       ELSE /\ sess' = [sess EXCEPT ![s].pc = "await_closed"]
            /\ last' = Last(s, "DISCONNECT", sess[s].key[1], <<>>, None, NoReply)
    /\ UNCHANGED <<store, oneshot_store, channel, poisoned, now, owed, expired>>

\* a fired task whose peer is gone resumes and writes "$1\r\n" to the closed
\* stream: write_all fails and its unwrap panics (main.rs:507), or the write
\* is accepted and the next read ends the loop
LbpopResumeClosed(s) ==
    /\ sess[s].pc = "await_closed"
    /\ channel[s] = "sent"
    /\ \E end \in {"closed", "panicked"} :
         sess' = [sess EXCEPT ![s] = [pc |-> end, key |-> None]]
    /\ last' = Last(s, "LBPOP_RESUME_CLOSED", sess[s].key[1], <<>>, None, NoReply)
    /\ channel' = [channel EXCEPT ![s] = "none"]
    /\ owed' = [owed EXCEPT ![s] = None]
    /\ UNCHANGED <<store, oneshot_store, poisoned, now, expired>>

\* the frames one read can deliver: PING and ECHO a, up to MaxFrames of them
PipeFrames == {<<"PING">>, <<"ECHO", "a">>}
Reads == UNION {[1..n -> PipeFrames] : n \in 1..MaxFrames}

\* the index tokens of LRANGE: the integers up to one past either end of the
\* longest list, and a text that is no integer
IndexTokens == {Num(n) : n \in (0 - MaxIndex)..MaxIndex} \cup {Word}

\* LRANGE k 0 -1
WholeList == <<Num(0), Num(-1)>>

\* ------------------------------------------------- the handlers, step by step
\* The list handlers again, one action per statement, with the two mutex
\* guards as locals of the task that holds them.  A task between its read
\* and its write carries parsed_command (key, args, opt), the value the key
\* had when the store guard was taken (pre, history), the guards it holds and
\* the reply it has built (out).
Task(pc, k, args, opt, pre, guards, out) ==
    [pc |-> pc, key |-> Some(k), args |-> args, opt |-> opt, pre |-> pre,
     guards |-> guards, out |-> out]

Guards(s) == IF "guards" \in DOMAIN sess[s] THEN sess[s].guards ELSE {}

\* a mutex whose lock() never waits for its holder
StoreFreeAlways == TRUE

\* Mutex::lock returns once no other task holds the guard
StoreFree == \A t \in Sessions : "store" \notin Guards(t)
RegistryFree == \A t \in Sessions : "registry" \notin Guards(t)

\* the argument lists of the pushes, the elements of one command distinct
GuardPushArgs == {<<>>, <<"a1", "a2">>, <<"b1", "b2">>}

FitsGuard(k, vs) ==
    k \in DOMAIN store /\ store[k].data.t = "List"
        => Len(store[k].data.l) + Len(vs) <= MaxGuardLen

\* a step inside a handler serves no command yet
Step(s) == last' = NoKeyLast(s, "STEP", NoReply)

\* the command a handler has served when it lets go of the store guard
Effect(s, op, reply) ==
    [Last(s, op, sess[s].key[1], sess[s].args, sess[s].opt, reply)
        EXCEPT !.pre = sess[s].pre]

At(s, pc) == sess[s].pc = pc
Goto(s, pc) == sess' = [sess EXCEPT ![s].pc = pc]

\* redis_key_val_store.lock().unwrap() as the first statement of a handler
LockStore(s, op, k, args, opt, pc) ==
    /\ Reading(s)
    /\ \/ LockPanics(s, op, k, args, opt)
       \/ /\ ~poisoned
          /\ StoreFree
          /\ sess' = [sess EXCEPT ![s] =
                        Task(pc, k, args, opt, Get(store, k), {"store"}, NoReply)]
          /\ Step(s)
          /\ UNCHANGED <<store, oneshot_store, channel, poisoned, now, owed, expired>>

\* drop(store), and the reply formatted
DropStore(s, op, reply) ==
    /\ sess' = [sess EXCEPT ![s].pc = "write", ![s].guards = @ \ {"store"},
                            ![s].out = reply]
    /\ last' = Effect(s, op, reply)

\* stream.write_all(redis_output).await.unwrap(), then the next read
WriteAll(s) ==
    /\ At(s, "write")
    /\ sess' = [sess EXCEPT ![s] = Idle]
    /\ last' = NoKeyLast(s, "WRITE", sess[s].out)
    /\ UNCHANGED <<store, oneshot_store, channel, poisoned, now, owed, expired>>

\* "rpush" (main.rs:275-318)
RpushLock(s, k, vs) ==
    FitsGuard(k, vs) /\ LockStore(s, "RPUSH", k, vs, None, "rpush_entry")

RpushEntry(s) ==
    /\ At(s, "rpush_entry")
    /\ store' = OrInsertList(sess[s].key[1])
    /\ Goto(s, "rpush_extend")
    /\ Step(s)
    /\ UNCHANGED <<oneshot_store, channel, poisoned, now, owed, expired>>

RpushExtend(s) ==
    /\ At(s, "rpush_extend")
    /\ LET k == sess[s].key[1]
           vs == sess[s].args
       IN  /\ store' = IF store[k].data.t = "List" /\ Len(vs) > 0
                       THEN WithList(store, k, Extend(store[k].data.l, vs))
                       ELSE store
           /\ sess' = [sess EXCEPT ![s].pc = "rpush_drop",
                                   ![s].out = PushReply(store', k, vs)]
    /\ Step(s)
    /\ UNCHANGED <<oneshot_store, channel, poisoned, now, owed, expired>>

RpushDrop(s) ==
    /\ At(s, "rpush_drop")
    /\ DropStore(s, "RPUSH", sess[s].out)
    /\ UNCHANGED <<store, oneshot_store, channel, poisoned, now, owed, expired>>

\* "lpop" (main.rs:397-437)
LpopLock(s, k, cnt) == LockStore(s, "LPOP", k, <<>>, cnt, "lpop_get")

\* the reply of "lpop" for the elements it popped
OutputReply(out) ==
    IF out = <<>> THEN Nil
    ELSE IF Len(out) = 1 THEN Bulk(out[1])
    ELSE Array(out)

\* store.get_mut and the pop_front loop
LpopPopFront(s) ==
    /\ At(s, "lpop_get")
    /\ LET k == sess[s].key[1]
           n == TimesToPop(sess[s].opt)
       IN  IF k \notin DOMAIN store
           THEN DropStore(s, "LPOP", Nil) /\ UNCHANGED store
           ELSE IF store[k].data.t # "List"
           THEN DropStore(s, "LPOP", WrongType) /\ UNCHANGED store
           ELSE /\ store' = WithList(store, k, Rest(store[k].data.l, n))
                /\ sess' = [sess EXCEPT ![s].pc = "lpop_remove",
                                        ![s].out = OutputReply(Popped(store[k].data.l, n))]
                /\ Step(s)
    /\ UNCHANGED <<oneshot_store, channel, poisoned, now, owed, expired>>

\* the key of a list left empty is removed, then drop(store)
LpopRemove(s) ==
    /\ At(s, "lpop_remove")
    /\ LET k == sess[s].key[1] IN
       store' = IF store[k].data.l = <<>> THEN Remove(store, k) ELSE store
    /\ DropStore(s, "LPOP", sess[s].out)
    /\ UNCHANGED <<oneshot_store, channel, poisoned, now, owed, expired>>

\* "lpush" (main.rs:319-369)
LpushLock(s, k, vs) ==
    Fits(k, vs) /\ LockStore(s, "LPUSH", k, vs, None, "lpush_entry")

LpushEntry(s) ==
    /\ At(s, "lpush_entry")
    /\ store' = OrInsertList(sess[s].key[1])
    /\ Goto(s, "lpush_push_front")
    /\ Step(s)
    /\ UNCHANGED <<oneshot_store, channel, poisoned, now, owed, expired>>

\* the loop of push_front; a refused push goes straight to drop(store)
LpushPushFront(s) ==
    /\ At(s, "lpush_push_front")
    /\ LET k == sess[s].key[1]
           vs == sess[s].args
       IN  IF store[k].data.t = "List" /\ Len(vs) > 0
           THEN /\ store' = WithList(store, k, PushFrontAll(store[k].data.l, vs))
                /\ Goto(s, "lpush_registry_lock")
           ELSE /\ store' = store
                /\ sess' = [sess EXCEPT ![s].pc = "lpush_drop",
                                        ![s].out = PushReply(store, k, vs)]
    /\ Step(s)
    /\ UNCHANGED <<oneshot_store, channel, poisoned, now, owed, expired>>

\* oneshot_store.lock().unwrap(), with the store guard held
LpushRegistryLock(s) ==
    /\ At(s, "lpush_registry_lock")
    /\ RegistryFree
    /\ sess' = [sess EXCEPT ![s].pc = "lpush_wake", ![s].guards = @ \cup {"registry"}]
    /\ Step(s)
    /\ UNCHANGED <<store, oneshot_store, channel, poisoned, now, owed, expired>>

\* get_mut, pop_front and send; the registry guard goes with the `if let`
LpushWake(s) ==
    /\ At(s, "lpush_wake")
    /\ LET k == sess[s].key[1]
           fired == LpushFired(k)
       IN  /\ oneshot_store' =
                 IF fired = <<>> THEN oneshot_store
                 ELSE [oneshot_store EXCEPT ![k] = SubSeq(@, Len(fired) + 1, Len(@))]
           /\ channel' = [x \in Sessions |->
                            IF x \in Range(fired) THEN "sent" ELSE channel[x]]
           /\ owed' = [x \in Sessions |->
                         IF x \in Range(fired)
                         THEN Some(store[k].data.l[IndexOf(fired, x)])
                         ELSE owed[x]]
           /\ sess' = [sess EXCEPT ![s].pc = "lpush_drop",
                                   ![s].guards = @ \ {"registry"},
                                   ![s].out = Integer(Len(store[k].data.l))]
    /\ Step(s)
    /\ UNCHANGED <<store, poisoned, now, expired>>

LpushDrop(s) ==
    /\ At(s, "lpush_drop")
    /\ DropStore(s, "LPUSH", sess[s].out)
    /\ UNCHANGED <<store, oneshot_store, channel, poisoned, now, owed, expired>>

\* "lbpop" (main.rs:438-493)
\* an `if let` whose scrutinee guard lives on into the else block
LbpopElseGuardsKept == {"store"}

\* the guard of the `if let` scrutinee is dropped before the else block
LbpopElseGuards == {}

\* redis_key_val_store.lock().unwrap() of the scrutinee
LbpopLock(s, k) == LockStore(s, "LBPOP", k, <<>>, None, "lbpop_get")

\* get_mut(db_list_name): Some goes on under the guard, None to the else block
LbpopGetMut(s) ==
    /\ At(s, "lbpop_get")
    /\ IF sess[s].key[1] \in DOMAIN store
       THEN Goto(s, "lbpop_pop_front")
       ELSE sess' = [sess EXCEPT ![s].pc = "lbpop_registry_lock",
                                 ![s].guards = LbpopElseGuards]
    /\ Step(s)
    /\ UNCHANGED <<store, oneshot_store, channel, poisoned, now, owed, expired>>

\* list.pop_front().unwrap(): the head, or a panic under the guard
LbpopPopFront(s) ==
    /\ At(s, "lbpop_pop_front")
    /\ LET k == sess[s].key[1] IN
       IF LbpopUnwrapPanics(k)
       THEN /\ poisoned' = TRUE
            /\ Panic(s, "LBPOP", k, <<>>, None)
            /\ UNCHANGED store
       ELSE /\ store' = LbpopStore(k)
            /\ DropStore(s, "LBPOP", LbpopFastReply(k))
            /\ UNCHANGED poisoned
    /\ UNCHANGED <<oneshot_store, channel, now, owed, expired>>

\* oneshot_store.lock().unwrap() in the else block
LbpopRegistryLock(s) ==
    /\ At(s, "lbpop_registry_lock")
    /\ RegistryFree
    /\ sess' = [sess EXCEPT ![s].pc = "lbpop_push_back", ![s].guards = @ \cup {"registry"}]
    /\ Step(s)
    /\ UNCHANGED <<store, oneshot_store, channel, poisoned, now, owed, expired>>

\* the channel, push_back of its sender, drop(oneshot_store); then the await
LbpopPushBack(s) ==
    /\ At(s, "lbpop_push_back")
    /\ oneshot_store' = PushBackSender(sess[s].key[1], s)
    /\ channel' = [channel EXCEPT ![s] = "pending"]
    /\ sess' = [sess EXCEPT ![s].pc = "await", ![s].guards = @ \ {"registry"}]
    /\ Step(s)
    /\ UNCHANGED <<store, poisoned, now, owed, expired>>

\* channel.1.await has returned: the reply is "$1\r\n"
LbpopAwait(s) ==
    /\ At(s, "await")
    /\ channel[s] = "sent"
    /\ channel' = [channel EXCEPT ![s] = "none"]
    /\ sess' = [sess EXCEPT ![s].pc = "write", ![s].out = LbpopResumeReply]
    /\ last' = Effect(s, "LBPOP_RESUME", LbpopResumeReply)
    /\ owed' = [owed EXCEPT ![s] = None]
    /\ UNCHANGED <<store, oneshot_store, poisoned, now, expired>>

\* the steps of the task of s between its read and its write or await
AtomicStep(s) ==
    \/ RpushEntry(s) \/ RpushExtend(s) \/ RpushDrop(s)
    \/ LpopPopFront(s) \/ LpopRemove(s)

GuardStep(s) ==
    \/ LpushEntry(s) \/ LpushPushFront(s) \/ LpushRegistryLock(s)
    \/ LpushWake(s) \/ LpushDrop(s)
    \/ LbpopGetMut(s) \/ LbpopPopFront(s) \/ LbpopRegistryLock(s)
    \/ LbpopPushBack(s)

\* the well-formed commands of the sessions S, and the steps of their LBPOPs
Handlers(S) ==
    \/ \E s \in S, k \in Keys, v \in Values, ttl \in TtlArgs :
         Set(s, k, v, ttl)
    \/ \E s \in S, k \in Keys : GetCmd(s, k)
    \/ \E s \in S, k \in Keys : Ttl(s, k)
    \/ \E s \in S : Dbsize(s)
    \/ \E s \in S, k \in Keys, vs \in PushArgs : Rpush(s, k, vs)
    \/ \E s \in S, k \in Keys, vs \in PushArgs : Lpush(s, k, vs)
    \/ \E s \in S, k \in Keys : Llen(s, k)
    \/ \E s \in S, k \in Keys, cnt \in CountArgs :
         Lpop(s, k, cnt)
    \/ \E s \in S, k \in Keys : Lrange(s, k, WholeList)
    \/ \E s \in S, k \in Keys : Lbpop(s, k)
    \/ \E s \in S : LbpopRegister(s)
    \/ \E s \in S : LbpopResume(s)

\* every client sends well-formed commands, one frame a read
Next ==
    \/ Tick
    \/ Handlers(Sessions)

Spec == Init /\ [][Next]_vars

\* two clients that also send commands short of arguments or with arguments
\* that do not parse, and reads that deliver several frames
TwoSessions == 1..2

BadArguments(S) ==
    \/ \E s \in S, op \in NoKeyOps : NoKey(s, op)
    \/ \E s \in S : SetNoValue(s)
    \/ \E s \in S : SetBadTtl(s)
    \/ \E s \in S : LpopBadCount(s)
    \/ \E s \in S, k \in Keys, r \in {<<>>, <<Word, Num(-1)>>} : Lrange(s, k, r)

NextInput ==
    \/ Tick
    \/ Handlers(TwoSessions)
    \/ BadArguments(TwoSessions)
    \/ \E s \in TwoSessions, frames \in Reads : Read(s, frames)

SpecInput == Init /\ [][NextInput]_vars

\* one client that builds lists and reads every range of them
NextLrange ==
    \/ \E k \in Keys, v \in Values : Set(1, k, v, None)
    \/ \E k \in Keys, vs \in PushArgs : Rpush(1, k, vs)
    \/ \E k \in Keys, vs \in PushArgs : Lpush(1, k, vs)
    \/ \E k \in Keys, cnt \in CountArgs : Lpop(1, k, cnt)
    \/ \E k \in Keys, a \in IndexTokens, b \in IndexTokens : Lrange(1, k, <<a, b>>)

SpecLrange == Init /\ [][NextLrange]_vars

\* two clients that send SET with every kind of value, and read it back
NextWire ==
    \/ \E s \in TwoSessions, k \in Keys, b \in ByteValues : SetWire(s, k, b)
    \/ \E s \in TwoSessions, k \in Keys : GetCmd(s, k)
    \/ \E s \in TwoSessions : Dbsize(s)

SpecWire == Init /\ [][NextWire]_vars

\* clients that push, pop and block on lists, and whose peers disconnect
NextTeardown ==
    \/ \E s \in Sessions, k \in Keys, vs \in PushArgs : Rpush(s, k, vs)
    \/ \E s \in Sessions, k \in Keys, vs \in PushArgs : Lpush(s, k, vs)
    \/ \E s \in Sessions, k \in Keys, cnt \in CountArgs : Lpop(s, k, cnt)
    \/ \E s \in Sessions, k \in Keys : Lbpop(s, k)
    \/ \E s \in Sessions : LbpopRegister(s)
    \/ \E s \in Sessions : LbpopResume(s)
    \/ \E s \in Sessions : Disconnect(s)
    \/ \E s \in Sessions : LbpopResumeClosed(s)

SpecTeardown == Init /\ [][NextTeardown]_vars

\* two clients whose RPUSH and LPOP interleave statement by statement
NextAtomic ==
    \/ \E s \in TwoSessions, k \in Keys, vs \in GuardPushArgs : RpushLock(s, k, vs)
    \/ \E s \in TwoSessions, k \in Keys, cnt \in CountArgs : LpopLock(s, k, cnt)
    \/ \E s \in TwoSessions : AtomicStep(s)
    \/ \E s \in TwoSessions : WriteAll(s)

SpecAtomic == Init /\ [][NextAtomic]_vars

\* two clients whose LPUSH and LBPOP interleave statement by statement
NextGuards ==
    \/ \E s \in TwoSessions, k \in Keys, vs \in PushArgs : LpushLock(s, k, vs)
    \/ \E s \in TwoSessions, k \in Keys : LbpopLock(s, k)
    \/ \E s \in TwoSessions : GuardStep(s)
    \/ \E s \in TwoSessions : LbpopAwait(s)
    \/ \E s \in TwoSessions : WriteAll(s)

SpecGuards == Init /\ [][NextGuards]_vars

\* a task that is running, neither suspended nor waiting for input, runs on
SpecGuardsFair ==
    /\ Init /\ [][NextGuards]_vars
    /\ \A s \in TwoSessions : WF_vars(GuardStep(s))

\* =================================================================== claims
\* the last step served a command and wrote a reply
Replied(op) == last.op = op /\ last.reply # NoReply

IsList(x) == x.data.t = "List"

\* the list a key held before the last step
PreList == last.pre[1].data.l

\* ---------------------------------------------------------------------- C1
\* C1 (blocking-pop rendezvous): when a session that suspended in LBPOP k
\* resumes after an LPUSH k v left the one-element list <<v>>, its reply is
\* the bulk string v, v has left the list (the key is gone), and LLEN k
\* answers 0.
C1_Rendezvous ==
    (last.op = "LBPOP_RESUME" /\ last.pre # None /\ IsList(last.pre[1])
        /\ Len(PreList) = 1)
    => /\ last.reply = Bulk(PreList[1])
       /\ last.k \notin DOMAIN store
       /\ LlenReply(last.k) = Integer(0)

\* ---------------------------------------------------------------------- C2
\* C2 (waiter FIFO, P4): after one successful push of m elements on a key
\* with the waiters W1..Wn queued, the waiters after the first Min(m, n) are
\* still queued, in order, and suspended; and a waiter that the push released
\* replies with the bulk string of the list head its firing handed to it (the
\* i-th head of the post-push list for Wi).
C2_WaiterFifo ==
    /\ (last.op \in {"LPUSH", "RPUSH"} /\ last.reply.t = "int")
        => LET n == Len(last.preq)
               m == Len(last.args)
           IN  \A i \in (Min(m, n) + 1)..n :
                 /\ channel[last.preq[i]] = "pending"
                 /\ Len(Waiters(last.k)) >= i - Min(m, n)
                 /\ Waiters(last.k)[i - Min(m, n)] = last.preq[i]
    /\ last.op = "LBPOP_RESUME"
        => last.owed # None /\ last.reply = Bulk(last.owed[1])

\* ---------------------------------------------------------------------- C3
\* C3 (invariant I2): no key of the store holds a list with zero elements.
C3_NoEmptyList ==
    \A k \in DOMAIN store : IsList(store[k]) => store[k].data.l # <<>>

\* ---------------------------------------------------------------------- C4
\* C4 (LBPOP chooses its branch atomically): when LBPOP k registers its
\* waiter, k still holds no poppable list, as its check found: no push on k
\* completed between the check and the registration.
C4_AtomicBranch ==
    last.op = "LBPOP_REGISTER"
    => ~(last.pre # None /\ IsList(last.pre[1]) /\ PreList # <<>>)

\* ---------------------------------------------------------------------- C5
\* C5 (producers wake waiters): a successful LPUSH or RPUSH of m elements on
\* a key whose waiter queue has q >= 1 entries takes exactly Min(m, q)
\* senders from the head of the queue and fires them, in the same step.
C5_PushFiresMin ==
    (last.op \in {"LPUSH", "RPUSH"} /\ last.reply.t = "int" /\ Len(last.preq) >= 1)
    => LET q == Len(last.preq)
           m == Len(last.args)
       IN  /\ Waiters(last.k) = SubSeq(last.preq, Min(m, q) + 1, q)
           /\ \A i \in 1..q :
                channel[last.preq[i]] = IF i <= Min(m, q) THEN "sent" ELSE "pending"

\* ---------------------------------------------------------------------- C6
\* C6 (passive expiry on GET, I5): a GET of an entry stored with a TTL,
\* served later than creation_time + ttl, answers nil and leaves the store
\* without the entry, one entry smaller; served before that instant it
\* answers the stored string and leaves the store as it was.
C6_PassiveExpiry ==
    (Replied("GET") /\ last.pre # None /\ last.pre[1].ttl # None)
    => LET x == last.pre[1]
           deadline == x.creation_time + x.ttl[1]
       IN  /\ now > deadline
                => /\ last.reply = Nil
                   /\ last.k \notin DOMAIN store
                   /\ Cardinality(DOMAIN store) = last.presize - 1
           /\ now < deadline
                => /\ x.data.t = "Val"
                   /\ last.reply = Bulk(x.data.v)
                   /\ Get(store, last.k) = last.pre
                   /\ Cardinality(DOMAIN store) = last.presize

C6_Witness ==
    /\ Replied("GET") /\ last.pre # None /\ last.pre[1].ttl # None
    /\ now > last.pre[1].creation_time + last.pre[1].ttl[1]
    /\ last.reply = Nil
    /\ last.presize = 1

\* ---------------------------------------------------------------------- C7
\* C7 as stated (expiry monotonicity, P5): once a GET k has answered nil for
\* the expiry of k, every later GET k answers nil until a SET k.
C7_NilUntilSet ==
    (Replied("GET") /\ last.seen \in {"nil", "pushed"}) => last.reply = Nil

\* C7 as amended: once a GET k has answered nil for the expiry of k, every
\* later GET k answers nil until a SET k, an RPUSH k or an LPUSH k.
C7_NilUntilSetOrPush ==
    (Replied("GET") /\ last.seen = "nil") => last.reply = Nil

C7_Witness ==
    /\ Replied("GET") /\ last.seen = "nil" /\ last.reply = Nil
    /\ last.pre = None

\* ---------------------------------------------------------------------- C8
\* C8 (SET overwrites wholesale): whatever the key held, after SET k v [PX ms]
\* it holds the string v, created at the instant of the SET, with the TTL
\* given or none; with none the entry is expired at no instant.
C8_SetOverwrites ==
    Replied("SET")
    => /\ last.k \in DOMAIN store
       /\ store[last.k] = RedisValue(Val(last.args[1]), now, last.opt)
       /\ last.opt = None
            => \A t \in 0..(MaxTime + MaxTtl + 1) : ~KeyExpiredAt(store[last.k], t)

C8_Witness ==
    /\ Replied("SET") /\ last.opt = None
    /\ last.pre # None /\ last.pre[1].ttl # None
    /\ store[last.k].ttl = None

\* ---------------------------------------------------------------------- C9
\* C9 (TTL): TTL k answers -1 when k is absent or stored without a TTL, and
\* otherwise creation_time + ttl - now clamped to 0, never negative; for an
\* entry the time left never grows as time advances.
C9_Ttl ==
    /\ Replied("TTL")
        => IF last.pre = None \/ last.pre[1].ttl = None
           THEN last.reply = Simple(-1)
           ELSE LET x == last.pre[1] IN
                /\ last.reply = Simple(Max(x.creation_time + x.ttl[1] - now, 0))
                /\ last.reply.n >= 0
    /\ \A k \in DOMAIN store :
          store[k].ttl # None
          => \A t1 \in 0..(MaxTime + MaxTtl + 1), t2 \in 0..(MaxTime + MaxTtl + 1) :
               t1 <= t2 => /\ TtlLeftAt(store[k], t1) >= TtlLeftAt(store[k], t2)
                           /\ TtlLeftAt(store[k], t2) >= 0

C9_Witness ==
    /\ Replied("TTL") /\ last.pre # None /\ last.pre[1].ttl # None
    /\ now > last.pre[1].creation_time + last.pre[1].ttl[1]
    /\ last.reply = Simple(0)

\* --------------------------------------------------------------------- C10
\* C10 (DBSIZE consistency, P1): every key that DBSIZE counts is observed by
\* the matching read served next: GET answers the string of a string key that
\* has not expired, LLEN answers a length of at least 1 for a list key.
C10_DbsizeObserved ==
    /\ DbsizeReply = Integer(Cardinality(DOMAIN store))
    /\ \A k \in DOMAIN store :
          IF IsList(store[k])
          THEN LlenReply(k).t = "int" /\ LlenReply(k).n >= 1
          ELSE KeyExpired(store[k]) \/ GetReply(k) = Bulk(store[k].data.v)

\* --------------------------------------------------------------------- C11
\* C11 (list drain, P2): when a served LPOP k, with or without a count, takes
\* the last element of the list at k, k is absent from the store afterwards:
\* DBSIZE counts one key fewer, LLEN k answers 0, LRANGE k 0 -1 answers the
\* empty array and LPOP k, with any count, answers nil.
C11_ListDrain ==
    (Replied("LPOP") /\ last.pre # None /\ IsList(last.pre[1])
        /\ Len(PreList) >= 1 /\ TimesToPop(last.opt) >= Len(PreList))
    => /\ last.k \notin DOMAIN store
       /\ DbsizeReply = Integer(last.presize - 1)
       /\ LlenReply(last.k) = Integer(0)
       /\ LrangeReply(last.k, WholeList) = Array(<<>>)
       /\ \A cnt \in CountArgs : LpopReply(last.k, cnt) = Nil

C11_Witness ==
    /\ Replied("LPOP") /\ last.pre # None /\ IsList(last.pre[1])
    /\ Len(PreList) = 2 /\ last.opt = Some(2)
    /\ last.reply = Array(PreList)
    /\ last.k \notin DOMAIN store

\* --------------------------------------------------------------------- C12
\* C12 (LRANGE, P3): a served LRANGE k s e with integer indices leaves the
\* store as it was; on a missing key it answers the empty array; on a list L
\* of n elements it answers the elements of L from index s' to index e'
\* inclusive, counted from 0, where a negative index has n added once, s' is
\* then raised to 0 and e' lowered to n - 1, and nothing when s' > e';
\* LRANGE k 0 -1 answers all of L.
C12_Lrange ==
    (Replied("LRANGE") /\ Len(last.args) = 2
        /\ last.args[1].text = "int" /\ last.args[2].text = "int")
    => /\ Get(store, last.k) = last.pre
       /\ Cardinality(DOMAIN store) = last.presize
       /\ last.pre = None => last.reply = Array(<<>>)
       /\ (last.pre # None /\ IsList(last.pre[1]))
            => LET n == Len(PreList)
                   s == last.args[1].n
                   e == last.args[2].n
                   s1 == IF s < 0 THEN s + n ELSE s
                   e1 == IF e < 0 THEN e + n ELSE e
                   s2 == IF s1 < 0 THEN 0 ELSE s1
                   e2 == IF e1 > n - 1 THEN n - 1 ELSE e1
               IN  /\ last.reply.t = "array"
                   /\ Len(last.reply.a) = (IF s2 > e2 THEN 0 ELSE e2 - s2 + 1)
                   /\ \A i \in 1..Len(last.reply.a) : last.reply.a[i] = PreList[s2 + i]
                   /\ (s = 0 /\ e = -1) => last.reply = Array(PreList)

C12_Witness ==
    /\ Replied("LRANGE") /\ last.pre # None /\ IsList(last.pre[1])
    /\ PreList = <<"a", "b">>
    /\ last.args = <<Num(-1), Num(3)>>
    /\ last.reply = Array(<<"b">>)

\* --------------------------------------------------------------------- C13
\* C13 (RPUSH): a served RPUSH k v1..vm with m >= 1, on an absent key or on a
\* list of n elements, leaves the list the old elements followed by v1..vm,
\* replies n + m (n = 0 for an absent key), and LLEN k then answers the same.
OldList == IF last.pre = None THEN <<>> ELSE PreList

C13_RpushAppends ==
    (Replied("RPUSH") /\ Len(last.args) >= 1
        /\ (last.pre = None \/ IsList(last.pre[1])))
    => /\ last.k \in DOMAIN store
       /\ store[last.k].data = List(OldList \o last.args)
       /\ last.reply = Integer(Len(OldList) + Len(last.args))
       /\ LlenReply(last.k) = last.reply

C13_Witness ==
    /\ Replied("RPUSH") /\ last.pre # None /\ IsList(last.pre[1])
    /\ PreList = <<"a">> /\ last.args = <<"b">>
    /\ last.reply = Integer(2)
    /\ store[last.k].data.l = <<"a", "b">>

\* --------------------------------------------------------------------- C14
\* C14 (LPUSH): a served LPUSH k v1..vm with m >= 1, on an absent key or on a
\* list, leaves the list vm, .., v1 followed by the old elements in their old
\* order, and replies the resulting length.
Reverse(q) == [i \in 1..Len(q) |-> q[Len(q) + 1 - i]]

C14_LpushOrder ==
    (Replied("LPUSH") /\ Len(last.args) >= 1
        /\ (last.pre = None \/ IsList(last.pre[1])))
    => /\ last.k \in DOMAIN store
       /\ store[last.k].data = List(Reverse(last.args) \o OldList)
       /\ last.reply = Integer(Len(store[last.k].data.l))

C14_Witness ==
    /\ Replied("LPUSH") /\ last.pre = None
    /\ last.args = <<"b", "a">>
    /\ store[last.k].data.l = <<"a", "b">>
    /\ last.reply = Integer(2)

\* --------------------------------------------------------------------- C15
\* C15 (LPOP reply shape): a served LPOP k on a non-empty list answers, with
\* no count, the head as one bulk string and leaves the rest; with a count
\* c >= 1 it answers the array of the first Min(c, length) elements, in list
\* order, also when that is one element, and leaves the rest.
C15_LpopShape ==
    (Replied("LPOP") /\ last.pre # None /\ IsList(last.pre[1]) /\ Len(PreList) >= 1)
    => LET c == TimesToPop(last.opt)
           heads == SubSeq(PreList, 1, Min(c, Len(PreList)))
           rest == SubSeq(PreList, Min(c, Len(PreList)) + 1, Len(PreList))
       IN  /\ last.opt = None => last.reply = Bulk(PreList[1])
           /\ (last.opt # None /\ c >= 1) => last.reply = Array(heads)
           /\ c >= 1 => Get(store, last.k) =
                           IF rest = <<>> THEN None
                           ELSE Some([last.pre[1] EXCEPT !.data = List(rest)])

\* --------------------------------------------------------------------- C16
\* C16 (WRONGTYPE leaves state unchanged): a served RPUSH, LPUSH, LPOP, LLEN,
\* LRANGE or LBPOP on a key that holds a string, and a served GET on a key
\* that holds a list, answers WRONGTYPE, leaves the store and the waiter
\* registry as they were, and leaves the session reading its next command.
ListOps == {"RPUSH", "LPUSH", "LPOP", "LLEN", "LRANGE", "LBPOP"}

C16_WrongTypeFrame ==
    (/\ last.reply # NoReply
     /\ last.pre # None
     /\ \/ last.op \in ListOps /\ ~IsList(last.pre[1])
        \/ last.op = "GET" /\ IsList(last.pre[1]))
    => /\ last.reply = WrongType
       /\ Get(store, last.k) = last.pre
       /\ Cardinality(DOMAIN store) = last.presize
       /\ Waiters(last.k) = last.preq
       /\ sess[last.s] = Idle

C16_Witness ==
    /\ Replied("LPUSH") /\ last.pre # None /\ ~IsList(last.pre[1])
    /\ last.reply = WrongType
    /\ last.preq # <<>>
    /\ Waiters(last.k) = last.preq

\* --------------------------------------------------------------------- C17
\* C17 (type safety, P6): a reply that carries data carries data of the
\* variant its command reads: a bulk string of GET is the string of a string
\* key; the elements LPOP, LBPOP and LRANGE answer are elements of the list of
\* a list key, and a length above 0 that LLEN answers is the length of the
\* list of a list key.
IsPrefix(p, q) == Len(p) <= Len(q) /\ SubSeq(q, 1, Len(p)) = p

C17_TypeSafety ==
    /\ (Replied("GET") /\ last.reply.t \in {"bulk", "array", "int"})
        => /\ last.pre # None /\ ~IsList(last.pre[1])
           /\ last.reply = Bulk(last.pre[1].data.v)
    /\ (last.op \in {"LPOP", "LBPOP"} /\ last.reply.t = "bulk")
        => /\ last.pre # None /\ IsList(last.pre[1])
           /\ IsPrefix(<<last.reply.v>>, PreList)
    /\ (last.op \in {"LPOP", "LRANGE"} /\ last.reply.t = "array" /\ last.reply.a # <<>>)
        => /\ last.pre # None /\ IsList(last.pre[1])
           /\ IsPrefix(last.reply.a, PreList)
    /\ (Replied("LLEN") /\ last.reply # Integer(0))
        => \/ last.reply = WrongType /\ last.pre # None /\ ~IsList(last.pre[1])
           \/ /\ last.pre # None /\ IsList(last.pre[1])
              /\ last.reply = Integer(Len(PreList))

C17_Witness ==
    /\ Replied("GET") /\ last.pre # None /\ IsList(last.pre[1])
    /\ PreList # <<>>
    /\ last.reply = WrongType

\* --------------------------------------------------------------------- C18
\* C18 (arity errors are non-fatal): a known command sent with too few
\* arguments (no key; RPUSH k or LPUSH k without values; SET k; LRANGE with
\* fewer than two indices) is answered by an error, leaves the store as it
\* was, with no key created, and leaves the session reading its next command
\* and the store usable.
TooFewArguments ==
    /\ last.s \in Sessions
    /\ \/ last.err \in {"nokey", "novalue"}
       \/ last.err = "none" /\ last.op \in {"RPUSH", "LPUSH"} /\ last.args = <<>>
       \/ last.err = "none" /\ last.op = "LRANGE" /\ Len(last.args) < 2

C18_ArityNonFatal ==
    TooFewArguments
    => /\ last.reply.t = "err"
       /\ Cardinality(DOMAIN store) = last.presize
       /\ last.err = "none" => Get(store, last.k) = last.pre
       /\ sess[last.s] = Idle
       /\ ~poisoned

\* --------------------------------------------------------------------- C19
\* C19 (argument parse errors are non-fatal): SET k v PX x with x no
\* non-negative integer, LPOP k x with x no integer, and LRANGE k s e with an
\* index that is no integer, is answered by an error, leaves the store as it
\* was, and leaves the session reading its next command and the store usable.
UnparsedArgument ==
    /\ last.s \in Sessions
    /\ \/ last.err \in {"badttl", "badcount"}
       \/ /\ last.err = "none" /\ last.op = "LRANGE" /\ Len(last.args) = 2
          /\ \E i \in 1..2 : last.args[i].text # "int"

C19_ParseNonFatal ==
    UnparsedArgument
    => /\ last.reply.t = "err"
       /\ Cardinality(DOMAIN store) = last.presize
       /\ last.err = "none" => Get(store, last.k) = last.pre
       /\ sess[last.s] = Idle
       /\ ~poisoned

\* --------------------------------------------------------------------- C20
\* C20 (pipelining): a read that delivers n complete frames is answered by n
\* replies, one for each frame.
RepliesWritten == IF last.reply = NoReply THEN 0 ELSE 1

C20_OneReplyPerFrame ==
    last.op \in {"PING", "ECHO"} => RepliesWritten = last.frames

\* --------------------------------------------------------------------- C21
\* C21 (SET/GET round-trip, P7): for every value b, empty, starting with '*'
\* or '$', or holding CR LF, SET k b is served and a GET k that follows it
\* with no write to k in between answers exactly b.
C21_RoundTrip ==
    last.op = "SET_WIRE"
    => /\ last.reply = Ok
       /\ GetReply(last.k) = Bulk(last.args[1])

\* --------------------------------------------------------------------- C22
\* C22 (teardown de-registers waiters): no sender in a waiter queue belongs to
\* a session whose peer has disconnected; and a served LPUSH on a key with a
\* queued waiter whose peer is connected fires the first such waiter.
LiveWaiter(x) == sess[x].pc = "await"

C22_TeardownDeregisters ==
    /\ \A k \in DOMAIN oneshot_store : \A i \in 1..Len(oneshot_store[k]) :
          sess[oneshot_store[k][i]].pc # "await_closed"
    /\ (last.op = "LPUSH" /\ last.reply.t = "int")
        => LET live == SelectSeq(last.preq, LiveWaiter) IN
           live # <<>> => channel[live[1]] = "sent"


\* --------------------------------------------------------------------- C23
\* C23 (commands are atomic and linearizable): with the statements of the
\* sessions' RPUSH and LPOP interleaved in every way, at most one task holds
\* the store guard, and when a command lets go of the guard the list and the
\* reply are those of the whole command applied to the value the key had when
\* the guard was taken: RPUSH k v1..vm leaves old \o <<v1..vm>> and replies
\* its length, LPOP k [n] replies the first n elements and leaves the rest.
StoreHolders == {s \in Sessions : "store" \in Guards(s)}

C23_Atomic ==
    /\ Cardinality(StoreHolders) <= 1
    /\ (last.op = "RPUSH" /\ last.reply.t = "int")
        => /\ last.k \in DOMAIN store
           /\ store[last.k].data = List(OldList \o last.args)
           /\ last.reply = Integer(Len(OldList) + Len(last.args))
    /\ (last.op = "LPOP" /\ last.reply # NoReply
          /\ (last.pre = None \/ IsList(last.pre[1])))
        => LET n == TimesToPop(last.opt) IN
           /\ last.reply = OutputReply(Popped(OldList, n))
           /\ IF Rest(OldList, n) = <<>>
              THEN last.k \notin DOMAIN store
              ELSE /\ last.k \in DOMAIN store
                   /\ store[last.k].data = List(Rest(OldList, n))

\* RPUSH k b1 b2 has taken effect on the list of RPUSH k a1 a2 and replies 4
\* while the reply 2 of the other session is still to be written
C23_Witness ==
    /\ last.op = "RPUSH"
    /\ last.reply = Integer(4)
    /\ last.args = <<"b1", "b2">>
    /\ store[last.k].data = List(<<"a1", "a2", "b1", "b2">>)
    /\ \E t \in Sessions \ {last.s} :
         /\ sess[t].pc = "write"
         /\ sess[t].args = <<"a1", "a2">>
         /\ sess[t].out = Integer(2)

\* --------------------------------------------------------------------- C24
\* C24 (LBPOP fast path): LBPOP k on a key holding a non-empty list replies
\* the head element without suspending, leaves the rest of the list, and
\* removes the key if and only if the list is now empty.
C24_LbpopFastPath ==
    (last.op = "LBPOP" /\ last.pre # None /\ IsList(last.pre[1]) /\ PreList # <<>>)
    => /\ last.reply = Bulk(Head(PreList))
       /\ Reading(last.s)
       /\ IF Tail(PreList) = <<>>
          THEN last.k \notin DOMAIN store
          ELSE /\ last.k \in DOMAIN store
               /\ IsList(store[last.k])
               /\ store[last.k].data.l = Tail(PreList)

\* --------------------------------------------------------------------- C25
\* C25 (LBPOP with nothing to pop suspends): LBPOP k on a key that is missing
\* or holds a list with no elements writes no reply, does not fail, and goes
\* on to register its waiter and suspend; once registered the session is
\* suspended on a queued, unfired sender.
C25_LbpopSuspends ==
    /\ (last.op = "LBPOP"
          /\ (last.pre = None \/ (IsList(last.pre[1]) /\ PreList = <<>>)))
        => /\ last.reply = NoReply
           /\ sess[last.s].pc = "register"
    /\ last.op = "LBPOP_REGISTER"
        => /\ sess[last.s].pc = "await"
           /\ channel[last.s] = "pending"
           /\ last.s \in Range(Waiters(last.k))

\* --------------------------------------------------------------------- C26
\* C26 (invariant I3, at-most-once wakeup): every entry of a key's waiter
\* queue is the unfired sender of a session suspended in LBPOP on that key, no
\* session has two entries, every suspended session that was not fired has its
\* entry; and a served LPUSH removes from the queue exactly the senders it
\* fired, at most one per pushed element.
Suspended(s, k) ==
    sess[s].pc = "await" /\ sess[s].key = Some(k) /\ channel[s] = "pending"

C26_WaiterEntries ==
    /\ \A k \in Keys :
         LET q == Waiters(k) IN
         /\ \A i \in 1..Len(q) : q[i] \in Sessions /\ Suspended(q[i], k)
         /\ \A i, j \in 1..Len(q) : q[i] = q[j] => i = j
    /\ \A s \in Sessions :
         (sess[s].pc = "await" /\ channel[s] = "pending")
         => Cardinality({i \in 1..Len(Waiters(sess[s].key[1])) :
                            Waiters(sess[s].key[1])[i] = s}) = 1
    /\ \A s \in Sessions : channel[s] = "sent" => sess[s].pc = "await"
    /\ (last.op = "LPUSH" /\ last.reply.t = "int")
        => LET fired == {i \in 1..Len(last.preq) : channel[last.preq[i]] = "sent"} IN
           /\ Cardinality(fired) <= Len(last.args)
           /\ Cardinality(fired) <= 1
           /\ Waiters(last.k) = SubSeq(last.preq, Cardinality(fired) + 1, Len(last.preq))
           /\ fired = 1..Cardinality(fired)

\* a served LPUSH has just fired the sender of a suspended session while
\* another session stays queued behind it
C26_Witness ==
    /\ last.op = "LPUSH" /\ last.reply.t = "int"
    /\ Len(last.preq) = 2
    /\ channel[last.preq[1]] = "sent"
    /\ Waiters(last.k) = <<last.preq[2]>>
    /\ Suspended(last.preq[2], last.k)

\* --------------------------------------------------------------------- C27
\* C27 (empty wakeup): a fired session that resumes while k holds no element
\* (a pop of another session took it) writes no reply, is queued again at the
\* head of k's waiter queue and stays suspended; and every bulk reply of an
\* LBPOP is the head element that this LBPOP took from the list.
C27_EmptyWakeup ==
    /\ (last.op = "LBPOP_RESUME"
          /\ (last.pre = None \/ ~IsList(last.pre[1]) \/ PreList = <<>>))
        => /\ last.reply = NoReply
           /\ sess[last.s].pc = "await"
           /\ Waiters(last.k) # <<>>
           /\ Head(Waiters(last.k)) = last.s
    /\ (last.op \in {"LBPOP", "LBPOP_RESUME"} /\ last.reply \notin {NoReply, WrongType})
        => /\ last.pre # None /\ IsList(last.pre[1]) /\ PreList # <<>>
           /\ last.reply = Bulk(Head(PreList))
           /\ Get(store, last.k) # last.pre


\* --------------------------------------------------------------------- C29
\* C29 (fault isolation between sessions): whatever the sessions have sent,
\* the store mutex is never left poisoned, and every well-formed keyspace
\* command of a session is served and gets its reply.
WellFormedKeyspaceOps ==
    {"SET", "GET", "TTL", "DBSIZE", "RPUSH", "LPUSH", "LLEN", "LPOP"}

C29_FaultIsolation ==
    /\ ~poisoned
    /\ (last.s \in Sessions /\ last.err = "none" /\ last.op \in WellFormedKeyspaceOps)
        => /\ last.reply # NoReply
           /\ sess[last.s] = Idle


\* --------------------------------------------------------------------- C28
\* C28 (no suspension or deadlock under the guards): a task that is at its
\* socket read, at its socket write or at the await of its channel holds
\* neither guard; a task never takes the store guard while it holds the
\* registry guard; and, a running task being scheduled on, every task that
\* holds a guard lets go of it.
SuspendPcs == {"read", "write", "await"}

NoSuspendUnderGuard ==
    \A s \in Sessions : sess[s].pc \in SuspendPcs => Guards(s) = {}

StoreBeforeRegistry ==
    \A s \in Sessions :
      ("store" \in Guards(s)' /\ "store" \notin Guards(s)) => "registry" \notin Guards(s)

C28_GuardsNeverBlock ==
    /\ []NoSuspendUnderGuard
    /\ [][StoreBeforeRegistry]_vars
    /\ \A s \in TwoSessions : (Guards(s) # {}) ~> (Guards(s) = {})

\* an LPUSH that holds the store guard waits for the registry guard, which an
\* LBPOP on its way to suspend holds
C28_Witness ==
    \E s, t \in Sessions :
      /\ sess[s].pc = "lpush_registry_lock" /\ Guards(s) = {"store"}
      /\ sess[t].pc = "lbpop_push_back" /\ Guards(t) = {"registry"}

=============================================================================
